---- MODULE Spec2Model ----
(***************************************************************************)
(* Agent task orchestration of backend/app: AgentService.process_task and  *)
(* its minimal workflow, the tool dispatch of execute_tool, the adapters   *)
(* it reaches, and the router entry points that schedule processing.       *)
(*                                                                         *)
(* Every server process runs one event loop.  process_task and the         *)
(* adapters are coroutines that block on their remote calls (the planner   *)
(* call, the mail send, the store commit) without suspending, so a server  *)
(* process runs one handler or one pass at a time; server processes share  *)
(* the relational store and interleave at these blocking calls.            *)
(***************************************************************************)
EXTENDS Integers, Sequences, FiniteSets, TLC

\* ------------------------------------------------------------------ bounds
MaxProposals == 3     \* longest tool_calls list the planner returns
MaxQueue == 1         \* background slots waiting in one server process

Users == {"u1", "u2"}
Workers == {"w1", "w2"}

ToolNames ==
  {"send_email", "search_emails", "create_calendar_event", "search_calendar",
   "create_hubspot_contact", "search_hubspot_contacts", "add_hubspot_note",
   "find_contact_info"}

\* ------------------------------------------------------------------ text
\* A text is the sequence of its whitespace-separated words; str.lower()
\* maps each word of the vocabulary to its lowercase form.
Lower(w) ==
  CASE w = "Sara" -> "sara"
    [] w = "Smith" -> "smith"
    [] w = "With" -> "with"
    [] w = "Schedule" -> "schedule"
    [] w = "Jones" -> "jones"
    [] w = "Bob" -> "bob"
    [] w = "Check" -> "check"
    [] OTHER -> w

LowerAll(ws) == [k \in 1..Len(ws) |-> Lower(ws[k])]

Words(ws) == {ws[k] : k \in 1..Len(ws)}

\* task descriptions a caller submits
Descriptions ==
  {<<"Schedule", "an", "appointment", "with", "Sara", "Smith">>,
   <<"book", "a", "room">>}

DefaultName == <<"selina", "jones">>

\* agent.py 270-275: the words after the first "with" that has a successor
WithPositions(words) ==
  {k \in 1..Len(words) : words[k] = "with" /\ k + 1 <= Len(words)}

MinOf(S) == CHOOSE x \in S : \A y \in S : x <= y

\* only the word that follows "with"
ExtractNameFirstWord(description) ==
  LET words == LowerAll(description)
  IN IF WithPositions(words) = {}
     THEN DefaultName
     ELSE <<words[MinOf(WithPositions(words)) + 1]>>

ExtractName(description) ==
  LET words == LowerAll(description)
  IN IF WithPositions(words) = {}
     THEN DefaultName
     ELSE SubSeq(words, MinOf(WithPositions(words)) + 1, Len(words))

\* `query in text` for texts whose words do not contain one another: the
\* words of the query are consecutive words of the text
Contains(text, query) ==
  \E k \in 0..(Len(text) - Len(query)) :
    \A j \in 1..Len(query) : text[k + j] = query[j]

\* chat.py 130-131: the keywords that turn a chat message into a task
TaskKeywords ==
  {<<"schedule">>, <<"send", "email">>, <<"create", "contact">>, <<"add", "note">>,
   <<"set", "up">>, <<"arrange">>, <<"book">>}

IsTaskRequest(content) ==
  \E keyword \in TaskKeywords : Contains(LowerAll(content), keyword)

\* ------------------------------------------------------------------ stores
\* Messages of the remote mailbox of each owner (what a Gmail sync fetches).
RemoteMail(u) ==
  IF u = "u1"
  THEN <<[gmail_id |-> "m1", from_name |-> <<"Sara", "Smith">>,
          from_addr |-> "sara.smith@example.com", angle |-> TRUE,
          subject |-> <<"lunch">>, body |-> <<"see", "you", "soon">>],
         [gmail_id |-> "m2", from_name |-> <<>>,
          from_addr |-> "selina@example.com", angle |-> FALSE,
          subject |-> <<"hello">>, body |-> <<"call", "Sara", "Jones">>]>>
  ELSE <<[gmail_id |-> "m3", from_name |-> <<"Bob">>,
          from_addr |-> "bob@example.com", angle |-> TRUE,
          subject |-> <<"hello">>, body |-> <<"hello", "Sara", "Jones">>]>>

VARIABLES
  hubLinked,   \* hubLinked[u]: the owner has a HubspotAccount row
  emails,      \* GmailEmail rows, in insertion order
  tasks,       \* AgentTask rows, tasks[id]
  bg,          \* bg[w]: BackgroundTasks of server process w, in order
  pass,        \* pass[w]: the process_task execution running in w
  users,       \* the owners that have a User row
  instructions,\* AgentInstruction rows, in insertion order
  contacts,    \* HubspotContact rows, in insertion order
  notes,       \* HubspotNote rows, in insertion order
  posts,       \* note-creation requests sent to the remote CRM, in order
  outbox,      \* send requests made to the remote mail service, in order
  meetings     \* Meeting rows, in insertion order

crm == <<contacts, notes, posts>>
dir == <<users, instructions>>
side == <<outbox, meetings>>

vars == <<hubLinked, emails, tasks, bg, pass, users, instructions, contacts, notes, posts,
          outbox, meetings>>

Idle == [pc |-> "idle", task |-> 0, calls |-> <<>>, i |-> 0, results |-> <<>>]

Init ==
  /\ hubLinked = [u \in Users |-> FALSE]
  /\ emails = <<>>
  /\ tasks = <<>>
  /\ bg = [w \in Workers |-> <<>>]
  /\ pass = [w \in Workers |-> Idle]
  /\ users = Users
  /\ instructions = <<>>
  /\ contacts = <<>>
  /\ notes = <<>>
  /\ posts = <<>>
  /\ outbox = <<>>
  /\ meetings = <<>>

\* ------------------------------------------------------------------ adapters
\* An outcome is the dict an adapter returns; success is "none" when the
\* dict has no "success" key (dict.get gives None, which is falsy).
Outcome(s, res, err) == [success |-> s, results |-> res, error |-> err]

Truthy(outcome) == outcome.success = "true"

\* gmail_tools.py 109-133: the candidate a matching message yields
Candidate(m) ==
  IF m.angle
  THEN [name |-> m.from_name, email |-> m.from_addr]
  ELSE [name |-> <<m.from_addr>>, email |-> m.from_addr]

\* the lowercase words of the sender header and of the body.  No word of
\* the vocabulary is a proper substring of another, so Python's substring
\* test `part in text` is membership in the words of the text.
AddrWords(a) ==
  CASE a = "sara.smith@example.com" -> {"sara", "smith", "example", "com"}
    [] a = "selina@example.com" -> {"selina", "example", "com"}
    [] a = "bob@example.com" -> {"bob", "example", "com"}
    [] OTHER -> {a}

SenderLower(m) ==
  (IF m.angle THEN Words(LowerAll(m.from_name)) ELSE {}) \cup AddrWords(m.from_addr)

BodyLower(m) == Words(LowerAll(m.body))

\* only the first part of the name is looked for
NameMatchFirstPart(m, name_parts) ==
  /\ name_parts # <<>>
  /\ (name_parts[1] \in SenderLower(m) \/ name_parts[1] \in BodyLower(m))

\* gmail_tools.py 114
NameMatch(m, name_parts) ==
  \E k \in 1..Len(name_parts) :
    name_parts[k] \in SenderLower(m) \/ name_parts[k] \in BodyLower(m)

\* the messages of every owner are searched
RECURSIVE ContactsOfAllOwners(_, _, _)
ContactsOfAllOwners(all_emails, u, name_parts) ==
  IF all_emails = <<>> THEN <<>>
  ELSE LET m == Head(all_emails)
           rest == ContactsOfAllOwners(Tail(all_emails), u, name_parts)
       IN IF NameMatch(m, name_parts)
          THEN <<Candidate(m)>> \o rest
          ELSE rest

\* gmail_tools.py 105-133: the candidates of the owner's messages, in the
\* order of the store
RECURSIVE Contacts(_, _, _)
Contacts(all_emails, u, name_parts) ==
  IF all_emails = <<>> THEN <<>>
  ELSE LET m == Head(all_emails)
           rest == Contacts(Tail(all_emails), u, name_parts)
       IN IF m.user_id = u /\ NameMatch(m, name_parts)
          THEN <<Candidate(m)>> \o rest
          ELSE rest

FirstN(s, n) == SubSeq(s, 1, IF Len(s) < n THEN Len(s) ELSE n)

\* gmail_tools.py 139
MaxCandidates == 3

\* every candidate is returned
find_contact_info_unlimited(db_emails, u, name) ==
  Outcome("true", Contacts(db_emails, u, LowerAll(name)), "")

\* gmail_tools.py 95-144
find_contact_info(db_emails, u, name) ==
  Outcome("true", FirstN(Contacts(db_emails, u, LowerAll(name)), MaxCandidates), "")

\* gmail_tools.py 56: the default of `limit`
SearchEmailsLimit == 10

\* gmail_tools.py 56-82
search_emails(db_emails, u, query) ==
  Outcome("true",
          FirstN(SelectSeq(db_emails,
                           LAMBDA m : /\ m.user_id = u
                                      /\ (Contains(m.subject, query) \/ Contains(m.body, query))),
                 SearchEmailsLimit),
          "")

\* Contacts of the remote CRM of each owner (what a HubSpot sync fetches).
RemoteContacts(u) ==
  IF u = "u1"
  THEN <<[hubspot_id |-> "h1", email |-> "sara.smith@example.com",
          first_name |-> "Sara", last_name |-> "Smith"]>>
  ELSE <<[hubspot_id |-> "h2", email |-> "bob@example.com",
          first_name |-> "Bob", last_name |-> ""]>>

\* hubspot_tools.py 96-101: column.contains(query) is a substring test on
\* the whole query text (case-insensitive under the default sqlite store),
\* so only a one-word query can be part of a name or an address
ContactMatches(c, query) ==
  /\ Len(query) = 1
  /\ \/ Lower(query[1]) = Lower(c.first_name)
     \/ Lower(query[1]) = Lower(c.last_name)
     \/ Lower(query[1]) = c.email
     \/ Lower(query[1]) \in AddrWords(c.email)

SearchContactsLimit == 10

\* hubspot_tools.py 82-120
search_contacts(db_contacts, linked, u, query) ==
  IF ~linked[u]
  THEN Outcome("false", <<>>, "HubSpot not connected. Please connect HubSpot first.")
  ELSE Outcome("true",
               FirstN(SelectSeq(db_contacts,
                                LAMBDA c : c.user_id = u /\ ContactMatches(c, query)),
                      SearchContactsLimit),
               "")

HasContact(db_contacts, u, contact_email) ==
  \E k \in 1..Len(db_contacts) :
    db_contacts[k].user_id = u /\ db_contacts[k].email = contact_email

\* What an adapter call did besides answering: the rows it added to
\* hubspot_contacts and hubspot_notes, the note-creation requests it sent
\* to the remote CRM, the send requests it made to the remote mail service
\* and the rows it added to meetings.
Done(outcome, new_contacts, new_notes, new_posts) ==
  [outcome |-> outcome, contacts |-> new_contacts, notes |-> new_notes, posts |-> new_posts,
   mail |-> <<>>, meetings |-> <<>>]

Quiet(outcome) == Done(outcome, <<>>, <<>>, <<>>)

\* gmail_tools.py 44: the request messages().send(...).execute()
SendRequest(u, arguments, remote) ==
  [user_id |-> u, to |-> arguments.v[1], delivered |-> remote]

\* a send that fails is made a second time
send_email_retried(u, arguments, remote) ==
  IF remote
  THEN [Quiet(Outcome("true", <<>>, "")) EXCEPT !.mail = <<SendRequest(u, arguments, TRUE)>>]
  ELSE [Quiet(Outcome("false", <<>>, "send failed"))
          EXCEPT !.mail = <<SendRequest(u, arguments, FALSE), SendRequest(u, arguments, FALSE)>>]

\* gmail_tools.py 35-54: one request to the remote mail service; any
\* exception becomes an outcome.  remote: the service accepts the message.
send_email(u, arguments, remote) ==
  [Quiet(IF remote THEN Outcome("true", <<>>, "")
         ELSE Outcome("false", <<>>, "send failed"))
     EXCEPT !.mail = <<SendRequest(u, arguments, remote)>>]

\* calendar_tools.py 36-79: the event is inserted in the remote calendar,
\* then the Meeting row is stored.  remote: the calendar accepts the event.
create_event(u, arguments, remote) ==
  IF remote
  THEN [Quiet(Outcome("true", <<>>, ""))
          EXCEPT !.meetings = <<[user_id |-> u, title |-> arguments.v[1]]>>]
  ELSE Quiet(Outcome("false", <<>>, "calendar error"))

\* the contact is not looked up in the local store
add_note_unchecked(db_contacts, linked, u, contact_email, remote) ==
  IF ~linked[u]
  THEN Done(Outcome("false", <<>>, "No HubSpot account connected"), <<>>, <<>>, <<>>)
  ELSE LET post == [user_id |-> u, contact_email |-> contact_email]
       IN IF remote
          THEN Done(Outcome("true", <<>>, ""), <<>>,
                    <<[user_id |-> u, contact_email |-> contact_email]>>, <<post>>)
          ELSE Done(Outcome("false", <<>>, "HubSpot API error"), <<>>, <<>>, <<post>>)

\* hubspot_tools.py 122-179.  remote: the CRM answers 201.
add_note(db_contacts, linked, u, contact_email, remote) ==
  IF ~HasContact(db_contacts, u, contact_email)
  THEN Done(Outcome("false", <<>>, "Contact not found"), <<>>, <<>>, <<>>)
  ELSE IF ~linked[u]
  THEN Done(Outcome("false", <<>>, "No HubSpot account connected"), <<>>, <<>>, <<>>)
  ELSE LET post == [user_id |-> u, contact_email |-> contact_email]
       IN IF remote
          THEN Done(Outcome("true", <<>>, ""), <<>>,
                    <<[user_id |-> u, contact_email |-> contact_email]>>, <<post>>)
          ELSE Done(Outcome("false", <<>>, "HubSpot API error"), <<>>, <<>>, <<post>>)

\* hubspot_tools.py 159-166: the HubspotNote rows of new notes; the remote
\* CRM gives each note it creates an id it has not given before
Stored(db_notes, new_notes) ==
  [k \in 1..Len(new_notes) |->
     [user_id |-> new_notes[k].user_id, contact_email |-> new_notes[k].contact_email,
      hubspot_id |-> <<"created", Len(db_notes) + k>>]]

\* the id the remote CRM gives to a contact it creates
CreatedId(email) ==
  CASE email = "sara.smith@example.com" -> "n1"
    [] email = "bob@example.com" -> "n2"
    [] OTHER -> "n3"

HasHubspotId(db_contacts, hubspot_id) ==
  \E k \in 1..Len(db_contacts) : db_contacts[k].hubspot_id = hubspot_id

\* What follows the first remote request of create_contact.  insert: the
\* store takes the HubspotContact row (models.py 108: phone is given no
\* value and, where the tables were made from these models, takes no
\* NULL).  note: the CRM answers 201 to the request of the chained add_note.
Follow == [insert : BOOLEAN, note : BOOLEAN]

Smooth == [insert |-> TRUE, note |-> TRUE]

\* the adapters other than create_contact make one request and no more
Follows(tool_name) == IF tool_name = "create_hubspot_contact" THEN Follow ELSE {Smooth}

\* the answer of the chained add_note is the answer of the call
create_contact_note_decides(db_contacts, linked, u, arguments, remote, follow) ==
  LET email == arguments.v[1]
      row == [user_id |-> u, hubspot_id |-> CreatedId(email), email |-> email,
              first_name |-> "", last_name |-> ""]
  IN IF ~linked[u]
     THEN Done(Outcome("false", <<>>, "No HubSpot account connected"), <<>>, <<>>, <<>>)
     ELSE IF ~remote
     THEN Done(Outcome("false", <<>>, "HubSpot API error"), <<>>, <<>>, <<>>)
     ELSE IF HasHubspotId(db_contacts, row.hubspot_id) \/ ~follow.insert
     THEN Done(Outcome("false", <<>>, "IntegrityError"), <<>>, <<>>, <<>>)
     ELSE LET noted == IF "note" \in arguments.keys
                       THEN add_note(Append(db_contacts, row), linked, u, email, follow.note)
                       ELSE Done(Outcome("true", <<>>, ""), <<>>, <<>>, <<>>)
          IN Done(noted.outcome, <<row>>, noted.notes, noted.posts)

\* hubspot_tools.py 27-80.  remote: the CRM answers 201 to the contact
\* request.  hubspot_id is unique in hubspot_contacts, so the insert of a
\* row with a stored id raises and the except branch answers.  The answer
\* of the chained add_note is dropped.
create_contact(db_contacts, linked, u, arguments, remote, follow) ==
  LET email == arguments.v[1]
      row == [user_id |-> u, hubspot_id |-> CreatedId(email), email |-> email,
              first_name |-> "", last_name |-> ""]
  IN IF ~linked[u]
     THEN Done(Outcome("false", <<>>, "No HubSpot account connected"), <<>>, <<>>, <<>>)
     ELSE IF ~remote
     THEN Done(Outcome("false", <<>>, "HubSpot API error"), <<>>, <<>>, <<>>)
     ELSE IF HasHubspotId(db_contacts, row.hubspot_id) \/ ~follow.insert
     THEN Done(Outcome("false", <<>>, "IntegrityError"), <<>>, <<>>, <<>>)
     ELSE LET noted == IF "note" \in arguments.keys
                       THEN add_note(Append(db_contacts, row), linked, u, email, follow.note)
                       ELSE Done(Outcome("true", <<>>, ""), <<>>, <<>>, <<>>)
          IN Done(Outcome("true", <<>>, ""), <<row>>, noted.notes, noted.posts)

\* agent.py 23-151 and the adapters' signatures: the keyword arguments a
\* call must give, and those it may give
Required(tool) ==
  CASE tool = "send_email" -> {"to", "subject", "body"}
    [] tool = "search_emails" -> {"query"}
    [] tool = "create_calendar_event" -> {"title", "start_time", "end_time"}
    [] tool = "search_calendar" -> {"query"}
    [] tool = "create_hubspot_contact" -> {"email"}
    [] tool = "search_hubspot_contacts" -> {"query"}
    [] tool = "add_hubspot_note" -> {"contact_email", "note"}
    [] tool = "find_contact_info" -> {"name"}
    [] OTHER -> {}

Optional(tool) ==
  CASE tool = "search_emails" -> {"limit"}
    [] tool = "create_calendar_event" -> {"attendees"}
    [] tool = "search_calendar" -> {"start_date", "end_date"}
    [] tool = "create_hubspot_contact" -> {"first_name", "last_name", "company", "note"}
    [] OTHER -> {}

Binds(tool, arguments) ==
  /\ Required(tool) \subseteq arguments.keys
  /\ arguments.keys \subseteq Required(tool) \cup Optional(tool)

\* agent.py 153-185: the dispatch of execute_tool with what the adapter
\* wrote.  remote: whether the remote service the adapter calls answers
\* with success; follow: what follows that answer in create_contact.
dispatch(db_emails, db_contacts, linked, u, tool_name, arguments, remote, follow) ==
  IF tool_name \notin ToolNames
  THEN Quiet(Outcome("none", <<>>, "Unknown tool"))
  ELSE IF ~Binds(tool_name, arguments)
  THEN Quiet(Outcome("none", <<>>, "TypeError"))
  ELSE CASE tool_name = "send_email" -> send_email(u, arguments, remote)
         [] tool_name = "create_calendar_event" -> create_event(u, arguments, remote)
         [] tool_name = "search_emails" -> Quiet(search_emails(db_emails, u, arguments.v))
         [] tool_name = "search_hubspot_contacts" ->
              Quiet(search_contacts(db_contacts, linked, u, arguments.v))
         [] tool_name = "find_contact_info" ->
              Quiet(find_contact_info(db_emails, u, arguments.v))
         [] tool_name = "create_hubspot_contact" ->
              create_contact(db_contacts, linked, u, arguments, remote, follow)
         [] tool_name = "add_hubspot_note" ->
              add_note(db_contacts, linked, u, arguments.v[1], remote)
         [] OTHER -> Quiet(IF remote THEN Outcome("true", <<>>, "")
                           ELSE Outcome("false", <<>>, "remote error"))

\* the dict execute_tool returns
execute_tool(db_emails, db_contacts, linked, u, tool_name, arguments, remote, follow) ==
  dispatch(db_emails, db_contacts, linked, u, tool_name, arguments, remote, follow).outcome

Entry(tool, arguments, result) ==
  [tool |-> tool, arguments |-> arguments, result |-> result]

\* ------------------------------------------------------------------ planner
\* A tool call of the planner's message: the tool name and the JSON text of
\* the arguments.  wellformed: json.loads parses the text (to `arguments`).
Call(tool, wellformed, keys, v) ==
  [tool |-> tool, wellformed |-> wellformed, arguments |-> [keys |-> keys, v |-> v]]

SearchCall == Call("search_hubspot_contacts", TRUE, {"query"}, <<"Sara", "Smith">>)
SendCall == Call("send_email", TRUE, {"to", "subject", "body"}, <<"sara.smith@example.com">>)
\* a tool name outside the catalog
UnknownCall == Call("send_email_draft", TRUE, {"to"}, <<"sara.smith@example.com">>)
\* arguments that parse but are not the adapter's parameters
BadKeysCall == Call("search_hubspot_contacts", TRUE, {"name"}, <<"Sara", "Smith">>)
\* arguments that are not JSON
BadJsonCall == Call("send_email", FALSE, {}, <<>>)

PlannerCalls == {SearchCall, SendCall, UnknownCall, BadKeysCall, BadJsonCall}

SeqsUpTo(S, n) == UNION {[1..k -> S] : k \in 0..n}

\* message.tool_calls of a planner response (<<>>: no tool call)
PlannerOutputs == SeqsUpTo(PlannerCalls, MaxProposals)

\* ------------------------------------------------------------------ process_task
\* the search counts as failed when it finds nothing
hubspot_failed_or_empty(results) ==
  \E k \in 1..Len(results) :
    /\ results[k].tool = "search_hubspot_contacts"
    /\ (~Truthy(results[k].result) \/ results[k].result.results = <<>>)

\* agent.py 267
hubspot_failed(results) ==
  \E k \in 1..Len(results) :
    results[k].tool = "search_hubspot_contacts" /\ ~Truthy(results[k].result)

\* `"send_email" in r["tool"]`: the tool names that contain "send_email"
ContainsSendEmail(tool) == tool \in {"send_email", "send_email_draft"}

\* the branches of the final status in the other order
FinalStatusCompletedFirst(results) ==
  IF \E k \in 1..Len(results) : Truthy(results[k].result)
  THEN "completed"
  ELSE IF \E k \in 1..Len(results) :
            ContainsSendEmail(results[k].tool) /\ Truthy(results[k].result)
  THEN "waiting_response"
  ELSE "failed"

\* agent.py 307-315 and 383-391
FinalStatus(results) ==
  IF \E k \in 1..Len(results) :
       ContainsSendEmail(results[k].tool) /\ Truthy(results[k].result)
  THEN "waiting_response"
  ELSE IF \E k \in 1..Len(results) : Truthy(results[k].result)
  THEN "completed"
  ELSE "failed"

FinalResult(status, failed_text) ==
  CASE status = "waiting_response" -> "Email sent, waiting for response"
    [] status = "completed" -> "Task completed successfully"
    [] OTHER -> failed_text

SetTask(t, status, result) ==
  tasks' = [tasks EXCEPT ![t].status = status, ![t].result = result]

\* agent.py 326-332: the handler of an exception raised in the pass
HandleException(w, message) ==
  /\ SetTask(pass[w].task, "failed", message)
  /\ pass' = [pass EXCEPT ![w] = Idle]

\* the status is left for the end of the pass to write
MarkInProgressSkipped(t) ==
  tasks' = tasks

\* agent.py 251-252 and 336-337
MarkInProgress(t) ==
  tasks' = [tasks EXCEPT ![t].status = "in_progress"]

\* a task that is not pending is not processed
StartPassPendingOnly(w, t, user_id) ==
  IF user_id \notin users \/ (t \in 1..Len(tasks) /\ tasks[t].status # "pending")
  THEN pass' = [pass EXCEPT ![w] = Idle]
  ELSE pass' = [pass EXCEPT ![w] = [Idle EXCEPT !.pc = "planner", !.task = t]]

\* agent.py 187-243: the pass starts in server process w and blocks in the
\* planner call
StartPass(w, t, user_id) ==
  IF user_id \notin users
  THEN pass' = [pass EXCEPT ![w] = Idle]
  ELSE pass' = [pass EXCEPT ![w] = [Idle EXCEPT !.pc = "planner", !.task = t]]

\* a message without tool calls goes straight to the finalization
PlannerReturnsNoWorkflow(w, outputs) ==
  /\ pass[w].pc = "planner"
  /\ \/ HandleException(w, "Error: planner call failed")
     \/ \E calls \in outputs :
          /\ MarkInProgress(pass[w].task)
          /\ pass' = [pass EXCEPT ![w].calls = calls, ![w].i = 1,
                        ![w].pc = IF calls = <<>> THEN "final" ELSE "loop"]
  /\ UNCHANGED <<hubLinked, emails, bg, crm, dir, side>>

\* agent.py 235-254 and 316-318, 336-339: the planner call returns or raises
PlannerReturns(w, outputs) ==
  /\ pass[w].pc = "planner"
  /\ \/ HandleException(w, "Error: planner call failed")
     \/ \E calls \in outputs :
          /\ MarkInProgress(pass[w].task)
          /\ pass' = [pass EXCEPT ![w].calls = calls, ![w].i = 1,
                        ![w].pc = IF calls = <<>> THEN "sim_search" ELSE "loop"]
  /\ UNCHANGED <<hubLinked, emails, bg, crm, dir, side>>

AfterLoop(results) == IF hubspot_failed(results) THEN "fallback" ELSE "final"

\* the loop stops at the first outcome that is not a success
ExecProposalStopOnFailure(w) ==
  /\ pass[w].pc = "loop"
  /\ LET p == pass[w]
         c == p.calls[p.i]
         u == tasks[p.task].user_id
     IN IF ~c.wellformed
        THEN HandleException(w, "Error: JSONDecodeError") /\ UNCHANGED <<crm, side>>
        ELSE \E remote \in BOOLEAN, follow \in Follows(c.tool) :
               LET result == execute_tool(emails, contacts, hubLinked, u, c.tool, c.arguments,
                                          remote, follow)
                   did == dispatch(emails, contacts, hubLinked, u, c.tool, c.arguments,
                                   remote, follow)
                   results == Append(p.results, Entry(c.tool, c.arguments, result))
               IN /\ pass' = [pass EXCEPT ![w].results = results,
                                ![w].i = p.i + 1,
                                ![w].pc = IF p.i = Len(p.calls) \/ ~Truthy(result)
                                          THEN AfterLoop(results) ELSE "loop"]
                  /\ contacts' = contacts \o did.contacts
                  /\ notes' = notes \o Stored(notes, did.notes)
                  /\ posts' = posts \o did.posts
                  /\ outbox' = outbox \o did.mail
                  /\ meetings' = meetings \o did.meetings
                  /\ UNCHANGED tasks
  /\ UNCHANGED <<hubLinked, emails, bg, dir>>

\* agent.py 255-267: one iteration of the loop over message.tool_calls
ExecProposal(w) ==
  /\ pass[w].pc = "loop"
  /\ LET p == pass[w]
         c == p.calls[p.i]
         u == tasks[p.task].user_id
     IN IF ~c.wellformed
        THEN HandleException(w, "Error: JSONDecodeError") /\ UNCHANGED <<crm, side>>
        ELSE \E remote \in BOOLEAN, follow \in Follows(c.tool) :
               LET result == execute_tool(emails, contacts, hubLinked, u, c.tool, c.arguments,
                                          remote, follow)
                   did == dispatch(emails, contacts, hubLinked, u, c.tool, c.arguments,
                                   remote, follow)
                   results == Append(p.results, Entry(c.tool, c.arguments, result))
               IN /\ pass' = [pass EXCEPT ![w].results = results,
                                ![w].i = p.i + 1,
                                ![w].pc = IF p.i = Len(p.calls)
                                          THEN AfterLoop(results) ELSE "loop"]
                  /\ contacts' = contacts \o did.contacts
                  /\ notes' = notes \o Stored(notes, did.notes)
                  /\ posts' = posts \o did.posts
                  /\ outbox' = outbox \o did.mail
                  /\ meetings' = meetings \o did.meetings
                  /\ UNCHANGED tasks
  /\ UNCHANGED <<hubLinked, emails, bg, dir>>

\* the candidates are not looked at
FoundContactSuccessOnly(result) == Truthy(result)

\* agent.py 286 and 359
FoundContact(result) == Truthy(result) /\ result.results # <<>>

\* agent.py 268-286: the injected archive fallback
InjectFind(w) ==
  /\ pass[w].pc = "fallback"
  /\ LET p == pass[w]
         u == tasks[p.task].user_id
         name == ExtractName(tasks[p.task].description)
         arguments == [keys |-> {"name"}, v |-> name]
         gmail_result == execute_tool(emails, contacts, hubLinked, u, "find_contact_info", arguments,
                                      TRUE, Smooth)
     IN pass' = [pass EXCEPT
                   ![w].results = Append(p.results, Entry("find_contact_info", arguments, gmail_result)),
                   ![w].pc = IF FoundContact(gmail_result) THEN "send" ELSE "final"]
  /\ UNCHANGED <<hubLinked, emails, tasks, bg, crm, dir, side>>

SendArguments(contact) ==
  [keys |-> {"to", "subject", "body"}, v |-> <<contact.email>>]

\* the chain is injected once for each search that failed
InjectSendPerFailure(w) ==
  /\ pass[w].pc = "send"
  /\ LET p == pass[w]
         u == tasks[p.task].user_id
         contact == p.results[Len(p.results)].result.results[1]
         failures == Len(SelectSeq(p.results,
                                   LAMBDA r : r.tool = "search_hubspot_contacts"
                                              /\ ~Truthy(r.result)))
     IN \E remote \in BOOLEAN :
          LET send_result == execute_tool(emails, contacts, hubLinked, u, "send_email",
                                          SendArguments(contact), remote, Smooth)
              did == dispatch(emails, contacts, hubLinked, u, "send_email",
                              SendArguments(contact), remote, Smooth)
          IN /\ pass' = [pass EXCEPT
                           ![w].results = Append(p.results,
                               Entry("send_email", SendArguments(contact), send_result)),
                           ![w].pc = IF Len(p.results) + 1 - Len(p.calls) < 2 * failures
                                     THEN "fallback" ELSE "final"]
             /\ outbox' = outbox \o did.mail
  /\ UNCHANGED <<hubLinked, emails, tasks, bg, crm, dir, meetings>>

\* agent.py 286-301: the injected email to the first candidate
InjectSend(w) ==
  /\ pass[w].pc = "send"
  /\ LET p == pass[w]
         u == tasks[p.task].user_id
         contact == p.results[Len(p.results)].result.results[1]
     IN \E remote \in BOOLEAN :
          LET send_result == execute_tool(emails, contacts, hubLinked, u, "send_email",
                                          SendArguments(contact), remote, Smooth)
              did == dispatch(emails, contacts, hubLinked, u, "send_email",
                              SendArguments(contact), remote, Smooth)
          IN /\ pass' = [pass EXCEPT
                           ![w].results = Append(p.results,
                               Entry("send_email", SendArguments(contact), send_result)),
                           ![w].pc = "final"]
             /\ outbox' = outbox \o did.mail
  /\ UNCHANGED <<hubLinked, emails, tasks, bg, crm, dir, meetings>>

StoreResults(t, results, failed_text) ==
  tasks' = [tasks EXCEPT
              ![t].has_trace = TRUE,
              ![t].tool_results = results,
              ![t].status = FinalStatus(results),
              ![t].result = FinalResult(FinalStatus(results), failed_text)]

\* the trace is stored and the status is left as it is
FinalizeKeepsStatus(w) ==
  /\ pass[w].pc = "final"
  /\ tasks' = [tasks EXCEPT ![pass[w].task].has_trace = TRUE,
                            ![pass[w].task].tool_results = pass[w].results]
  /\ pass' = [pass EXCEPT ![w] = Idle]
  /\ UNCHANGED <<hubLinked, emails, bg, crm, dir, side>>

\* agent.py 303-324
Finalize(w) ==
  /\ pass[w].pc = "final"
  /\ StoreResults(pass[w].task, pass[w].results,
                  "Could not complete task - no contacts found")
  /\ pass' = [pass EXCEPT ![w] = Idle]
  /\ UNCHANGED <<hubLinked, emails, bg, crm, dir, side>>

\* agent.py 322-332 and 393: the commit of the finalization raises (the
\* store is not reachable) and the handler runs: it sets the status and the
\* result and commits again.  That commit is made on the same session; it
\* either goes through, or raises too, and then nothing of the pass is
\* stored and the exception leaves process_task.
StoreFails(w) ==
  /\ pass[w].pc \in {"final", "sim_final"}
  /\ \/ HandleException(w, "Error: OperationalError")
     \/ /\ pass' = [pass EXCEPT ![w].pc = "raised"]
        /\ UNCHANGED tasks
  /\ UNCHANGED <<hubLinked, emails, bg, crm, dir, side>>

\* routers/agent.py 44 and routers/chat.py 141: the exception reaches the
\* caller of process_task, the background runner or the chat handler
Propagate(w) ==
  /\ pass[w].pc = "raised"
  /\ pass' = [pass EXCEPT ![w] = Idle]
  /\ UNCHANGED <<hubLinked, emails, tasks, bg, crm, dir, side>>

\* ------------------------------------------------------------------ minimal workflow
\* agent.py 341-350: _simulate_appointment_scheduling, called with the
\* name "selina jones" (agent.py 318)
SimSearch(w) ==
  /\ pass[w].pc = "sim_search"
  /\ LET p == pass[w]
         u == tasks[p.task].user_id
         arguments == [keys |-> {"query"}, v |-> DefaultName]
         hubspot_result == execute_tool(emails, contacts, hubLinked, u, "search_hubspot_contacts",
                                        arguments, TRUE, Smooth)
     IN pass' = [pass EXCEPT
                   ![w].results = Append(p.results,
                       Entry("search_hubspot_contacts", arguments, hubspot_result)),
                   ![w].pc = IF ~Truthy(hubspot_result) THEN "sim_find" ELSE "sim_final"]
  /\ UNCHANGED <<hubLinked, emails, tasks, bg, crm, dir, side>>

\* agent.py 350-359
SimFind(w) ==
  /\ pass[w].pc = "sim_find"
  /\ LET p == pass[w]
         u == tasks[p.task].user_id
         arguments == [keys |-> {"name"}, v |-> DefaultName]
         gmail_result == execute_tool(emails, contacts, hubLinked, u, "find_contact_info", arguments,
                                      TRUE, Smooth)
     IN pass' = [pass EXCEPT
                   ![w].results = Append(p.results, Entry("find_contact_info", arguments, gmail_result)),
                   ![w].pc = IF FoundContact(gmail_result) THEN "sim_send" ELSE "sim_final"]
  /\ UNCHANGED <<hubLinked, emails, tasks, bg, crm, dir, side>>

\* agent.py 359-377
SimSend(w) ==
  /\ pass[w].pc = "sim_send"
  /\ LET p == pass[w]
         u == tasks[p.task].user_id
         contact == p.results[Len(p.results)].result.results[1]
     IN \E remote \in BOOLEAN :
          LET send_result == execute_tool(emails, contacts, hubLinked, u, "send_email",
                                          SendArguments(contact), remote, Smooth)
              did == dispatch(emails, contacts, hubLinked, u, "send_email",
                              SendArguments(contact), remote, Smooth)
          IN /\ pass' = [pass EXCEPT
                           ![w].results = Append(p.results,
                               Entry("send_email", SendArguments(contact), send_result)),
                           ![w].pc = "sim_final"]
             /\ outbox' = outbox \o did.mail
  /\ UNCHANGED <<hubLinked, emails, tasks, bg, crm, dir, meetings>>

\* agent.py 379-394
SimFinalize(w) ==
  /\ pass[w].pc = "sim_final"
  /\ StoreResults(pass[w].task, pass[w].results, "Could not find contact information")
  /\ pass' = [pass EXCEPT ![w] = Idle]
  /\ UNCHANGED <<hubLinked, emails, bg, crm, dir, side>>

\* ------------------------------------------------------------------ entry points
LoopFree(w) == pass[w].pc = "idle"

\* The context dict of a task: the keys the callers of create_task give
\* (<<>> and "": the key is absent).  tool_results is kept beside it.
NoContext ==
  [name |-> <<>>, source |-> "", trigger |-> "", event_type |-> "", event_data |-> ""]

\* the name a caller of POST /agent/tasks may put in the context
ContextNames == {<<>>, <<"Sara", "Smith">>}

\* agent.py 396-407
NewTask(u, description, context) ==
  [user_id |-> u, description |-> description, context |-> context, status |-> "pending",
   result |-> "", has_trace |-> FALSE, tool_results |-> <<>>]

\* the functions a handler hands to BackgroundTasks
BgProcess(t) == [fn |-> "process_task", task |-> t, user |-> "", event_type |-> ""]

BgCheck(u, event_type) ==
  [fn |-> "check_proactive_actions", task |-> 0, user |-> u, event_type |-> event_type]

\* routers/agent.py 32-55: POST /agent/tasks
PostTask(w, u, description, name) ==
  /\ LoopFree(w)
  /\ u \in users
  /\ Len(bg[w]) < MaxQueue
  /\ tasks' = Append(tasks, NewTask(u, description, [NoContext EXCEPT !.name = name]))
  /\ bg' = [bg EXCEPT ![w] = Append(@, BgProcess(Len(tasks) + 1))]
  /\ UNCHANGED <<hubLinked, emails, pass, crm, dir, side>>

PendingOf(u) == {t \in 1..Len(tasks) : tasks[t].user_id = u /\ tasks[t].status = "pending"}

RECURSIVE Ascending(_)
Ascending(S) ==
  IF S = {} THEN <<>> ELSE <<BgProcess(MinOf(S))>> \o Ascending(S \ {MinOf(S)})

\* routers/agent.py 159-176: POST /agent/process-pending
ProcessPending(w, u) ==
  /\ LoopFree(w)
  /\ u \in users
  /\ PendingOf(u) # {}
  /\ Len(bg[w]) + Cardinality(PendingOf(u)) <= MaxQueue
  /\ bg' = [bg EXCEPT ![w] = @ \o Ascending(PendingOf(u))]
  /\ UNCHANGED <<hubLinked, emails, tasks, pass, crm, dir, side>>

\* routers/chat.py 129-142: a chat message that asks for a task
ChatMessage(w, u, content) ==
  /\ LoopFree(w)
  /\ u \in users
  /\ IsTaskRequest(content)
  /\ tasks' = Append(tasks, NewTask(u, content, [NoContext EXCEPT !.source = "chat"]))
  /\ StartPass(w, Len(tasks) + 1, u)
  /\ UNCHANGED <<hubLinked, emails, bg, crm, dir, side>>

\* starlette runs the next background function once the loop is free
RunBackground(w) ==
  /\ LoopFree(w)
  /\ bg[w] # <<>>
  /\ Head(bg[w]).fn = "process_task"
  /\ bg' = [bg EXCEPT ![w] = Tail(@)]
  /\ StartPass(w, Head(bg[w]).task, tasks[Head(bg[w]).task].user_id)
  /\ UNCHANGED <<hubLinked, emails, tasks, crm, dir, side>>

\* routers/hubspot.py 193-266 and 268-276
HubspotCallback(u) ==
  /\ ~hubLinked[u]
  /\ hubLinked' = [hubLinked EXCEPT ![u] = TRUE]
  /\ UNCHANGED <<emails, tasks, bg, pass, crm, dir, side>>

HubspotDisconnect(u) ==
  /\ hubLinked[u]
  /\ hubLinked' = [hubLinked EXCEPT ![u] = FALSE]
  /\ UNCHANGED <<emails, tasks, bg, pass, crm, dir, side>>

\* no stored message is looked for
HasEmailNever(gmail_id) == FALSE

\* data_sync.py 53-55
HasEmail(gmail_id) == \E k \in 1..Len(emails) : emails[k].gmail_id = gmail_id

\* data_sync.py 41-103: the messages of the mailbox not stored yet
RECURSIVE NewEmails(_, _)
NewEmails(msgs, u) ==
  IF msgs = <<>> THEN <<>>
  ELSE LET m == Head(msgs)
       IN (IF HasEmail(m.gmail_id) THEN <<>>
           ELSE <<[user_id |-> u, gmail_id |-> m.gmail_id, from_name |-> m.from_name,
                   from_addr |-> m.from_addr, angle |-> m.angle,
                   subject |-> m.subject, body |-> m.body]>>)
          \o NewEmails(Tail(msgs), u)

sync_gmail_emails(u) ==
  /\ NewEmails(RemoteMail(u), u) # <<>>
  /\ emails' = emails \o NewEmails(RemoteMail(u), u)
  /\ UNCHANGED <<hubLinked, tasks, bg, pass, crm, dir, side>>

\* data_sync.py 128-157: the contacts of the remote CRM not stored yet (a
\* stored one is overwritten with the same remote fields)
RECURSIVE NewContacts(_, _)
NewContacts(remote_contacts, u) ==
  IF remote_contacts = <<>> THEN <<>>
  ELSE LET c == Head(remote_contacts)
       IN (IF HasHubspotId(contacts, c.hubspot_id) THEN <<>>
           ELSE <<[user_id |-> u, hubspot_id |-> c.hubspot_id, email |-> c.email,
                   first_name |-> c.first_name, last_name |-> c.last_name]>>)
          \o NewContacts(Tail(remote_contacts), u)

\* The notes the remote CRM holds for a contact besides those add_note
\* stored (the second one has an empty body).
RemoteNotes(hubspot_id) ==
  CASE hubspot_id = "h1" -> <<[id |-> <<"remote", 1>>, body |-> <<"met", "Sara">>],
                              [id |-> <<"remote", 2>>, body |-> <<>>]>>
    [] hubspot_id = "h2" -> <<[id |-> <<"remote", 3>>, body |-> <<"hello">>]>>
    [] OTHER -> <<>>

HasNote(note_id) == \E k \in 1..Len(notes) : notes[k].hubspot_id = note_id

\* data_sync.py 187-255: the notes of one contact that have a body and are
\* not stored yet
RECURSIVE sync_contact_notes(_, _, _)
sync_contact_notes(notes_data, u, c) ==
  IF notes_data = <<>> THEN <<>>
  ELSE LET n == Head(notes_data)
       IN (IF n.body = <<>> \/ HasNote(n.id) THEN <<>>
           ELSE <<[user_id |-> u, contact_email |-> c.email, hubspot_id |-> n.id]>>)
          \o sync_contact_notes(Tail(notes_data), u, c)

\* data_sync.py 128-181: the notes pass of every fetched contact
RECURSIVE NewNotes(_, _)
NewNotes(remote_contacts, u) ==
  IF remote_contacts = <<>> THEN <<>>
  ELSE sync_contact_notes(RemoteNotes(Head(remote_contacts).hubspot_id), u, Head(remote_contacts))
       \o NewNotes(Tail(remote_contacts), u)

\* data_sync.py 105-185: the contacts and, for each of them, its notes
sync_hubspot_contacts(u) ==
  /\ hubLinked[u]
  /\ NewContacts(RemoteContacts(u), u) # <<>> \/ NewNotes(RemoteContacts(u), u) # <<>>
  /\ contacts' = contacts \o NewContacts(RemoteContacts(u), u)
  /\ notes' = notes \o NewNotes(RemoteContacts(u), u)
  /\ UNCHANGED <<hubLinked, emails, tasks, bg, pass, posts, dir, side>>

\* ------------------------------------------------------------------ instructions
MaxInstructions == 2   \* AgentInstruction rows

\* routers/agent.py 100-117 and agent.py 409-419: POST /agent/instructions
add_instruction(u) ==
  /\ u \in users
  /\ Len(instructions) < MaxInstructions
  /\ instructions' = Append(instructions, [user_id |-> u, is_active |-> TRUE])
  /\ UNCHANGED <<hubLinked, emails, tasks, bg, pass, crm, users, side>>

\* routers/agent.py 137-157: PUT /agent/instructions/{id}/toggle
toggle_instruction(u, instruction_id) ==
  /\ u \in users
  /\ instruction_id \in 1..Len(instructions)
  /\ instructions[instruction_id].user_id = u
  /\ instructions' = [instructions EXCEPT ![instruction_id].is_active = ~@]
  /\ UNCHANGED <<hubLinked, emails, tasks, bg, pass, crm, users, side>>

\* is_active is not looked at
AllInstructions(u) ==
  {k \in 1..Len(instructions) : instructions[k].user_id = u}

\* agent.py 423-426
ActiveInstructions(u) ==
  {k \in 1..Len(instructions) : instructions[k].user_id = u /\ instructions[k].is_active}

EventTypes == {"gmail_notification", "calendar_notification", "hubspot_notification"}

\* routers/agent.py 178-248: the three webhook handlers; user_id is read
\* from the body of the request
Webhook(w, u, event_type) ==
  /\ LoopFree(w)
  /\ u \in users
  /\ Len(bg[w]) < MaxQueue
  /\ bg' = [bg EXCEPT ![w] = Append(@, BgCheck(u, event_type))]
  /\ UNCHANGED <<hubLinked, emails, tasks, pass, crm, dir, side>>

\* agent.py 438
ProactiveDescription(event_type) ==
  <<"Check", "if", "any", "proactive", "action", "is", "needed", "for", event_type, "event">>

\* agent.py 432-436
ProactiveContext(u, event_type) ==
  [NoContext EXCEPT !.event_type = event_type, !.event_data = u,
                    !.trigger = "proactive_check"]

\* the task is left to a background slot
check_proactive_actions_deferred(w, u, event_type) ==
  IF ActiveInstructions(u) = {}
  THEN UNCHANGED <<tasks, pass>> /\ bg' = [bg EXCEPT ![w] = Tail(@)]
  ELSE /\ tasks' = Append(tasks, NewTask(u, ProactiveDescription(event_type),
                                         ProactiveContext(u, event_type)))
       /\ bg' = [bg EXCEPT ![w] = Append(Tail(@), BgProcess(Len(tasks) + 1))]
       /\ UNCHANGED pass

\* agent.py 421-442
check_proactive_actions(w, u, event_type) ==
  IF ActiveInstructions(u) = {}
  THEN UNCHANGED <<tasks, pass>> /\ bg' = [bg EXCEPT ![w] = Tail(@)]
  ELSE /\ tasks' = Append(tasks, NewTask(u, ProactiveDescription(event_type),
                                         ProactiveContext(u, event_type)))
       /\ StartPass(w, Len(tasks) + 1, u)
       /\ bg' = [bg EXCEPT ![w] = Tail(@)]

\* the background slot of a webhook runs
RunCheck(w) ==
  /\ LoopFree(w)
  /\ bg[w] # <<>>
  /\ Head(bg[w]).fn = "check_proactive_actions"
  /\ check_proactive_actions(w, Head(bg[w]).user, Head(bg[w]).event_type)
  /\ UNCHANGED <<hubLinked, emails, crm, dir, side>>

\* models.py 146: agent_tasks.user_id refers to users.id without ON DELETE,
\* and the default sqlite store does not enforce the reference, so the
\* User row of an owner can be removed while the owner's tasks stay
UserRowRemoved(u) ==
  /\ u \in users
  /\ users' = users \ {u}
  /\ UNCHANGED <<hubLinked, emails, tasks, bg, pass, crm, instructions, side>>

\* ------------------------------------------------------------------ specifications
\* The life of one task of one owner in one server process: the task is
\* created by POST /agent/tasks or by a chat message and processed once.
Next ==
  \/ \E d \in Descriptions, n \in ContextNames : tasks = <<>> /\ PostTask("w1", "u1", d, n)
  \/ \E d \in Descriptions : tasks = <<>> /\ ChatMessage("w1", "u1", d)
  \/ RunBackground("w1")
  \/ PlannerReturns("w1", PlannerOutputs)
  \/ ExecProposal("w1")
  \/ InjectFind("w1")
  \/ InjectSend("w1")
  \/ Finalize("w1")
  \/ SimSearch("w1")
  \/ SimFind("w1")
  \/ SimSend("w1")
  \/ SimFinalize("w1")
  \/ HubspotCallback("u1")
  \/ HubspotDisconnect("u1")
  \/ sync_gmail_emails("u1")

Spec == Init /\ [][Next]_vars

\* One task of one owner and two server processes over the shared store:
\* each process may be asked to process the pending tasks, so the task is
\* processed again and by both.  The planner answers with one of three
\* tool_calls lists.  No mail is synchronized, so the archive is empty and
\* the search of the archive finds no contact to write to.
WorkerOutputs == {<<>>, <<SearchCall>>, <<SearchCall, SendCall>>}

NextWorkers ==
  \/ \E w \in Workers, d \in Descriptions : tasks = <<>> /\ PostTask(w, "u1", d, <<>>)
  \/ \E w \in Workers : ProcessPending(w, "u1")
  \/ \E w \in Workers, d \in Descriptions : tasks = <<>> /\ ChatMessage(w, "u1", d)
  \/ \E w \in Workers : RunBackground(w)
  \/ \E w \in Workers : PlannerReturns(w, WorkerOutputs)
  \/ \E w \in Workers : ExecProposal(w)
  \/ \E w \in Workers : InjectFind(w)
  \/ \E w \in Workers : Finalize(w)
  \/ \E w \in Workers : SimSearch(w)
  \/ \E w \in Workers : SimFind(w)
  \/ \E w \in Workers : SimFinalize(w)
  \/ HubspotCallback("u1")
  \/ HubspotDisconnect("u1")

SpecWorkers == Init /\ [][NextWorkers]_vars

\* The adapters that write: one task of one owner whose planner proposes
\* calls that add to the owner's contacts, notes and meetings.
CreateCall == Call("create_hubspot_contact", TRUE, {"email"}, <<"bob@example.com">>)
CreateWithNoteCall ==
  Call("create_hubspot_contact", TRUE, {"email", "note"}, <<"sara.smith@example.com">>)
NoteSaraCall ==
  Call("add_hubspot_note", TRUE, {"contact_email", "note"}, <<"sara.smith@example.com">>)
NoteBobCall ==
  Call("add_hubspot_note", TRUE, {"contact_email", "note"}, <<"bob@example.com">>)
EventCall ==
  Call("create_calendar_event", TRUE, {"title", "start_time", "end_time"}, <<"meeting">>)

CrmCalls == {CreateCall, CreateWithNoteCall, NoteSaraCall, NoteBobCall, EventCall}

CrmOutputs == SeqsUpTo(CrmCalls, MaxProposals) \ {<<>>}

NextCrm ==
  \/ tasks = <<>> /\ PostTask("w1", "u1", <<"book", "a", "room">>, <<>>)
  \/ RunBackground("w1")
  \/ PlannerReturns("w1", CrmOutputs)
  \/ ExecProposal("w1")
  \/ Finalize("w1")
  \/ HubspotCallback("u1")
  \/ HubspotDisconnect("u1")
  \/ sync_hubspot_contacts("u1")

SpecCrm == Init /\ [][NextCrm]_vars

\* Inbound events: one webhook event for one owner in one server process,
\* while that owner and another one add and toggle instructions and the
\* other owner posts a task and has the archive, the CRM link and the
\* contacts change.
NoTaskOf(u) == \A t \in 1..Len(tasks) : tasks[t].user_id # u

NextEvents ==
  \/ \E e \in EventTypes :
       NoTaskOf("u1") /\ bg["w1"] = <<>> /\ Webhook("w1", "u1", e)
  \/ NoTaskOf("u2") /\ PostTask("w2", "u2", <<"book", "a", "room">>, <<>>)
  \/ RunCheck("w1")
  \/ \E u \in Users : add_instruction(u)
  \/ \E u \in Users, k \in 1..MaxInstructions : toggle_instruction(u, k)
  \/ PlannerReturns("w1", WorkerOutputs)
  \/ ExecProposal("w1")
  \/ InjectFind("w1")
  \/ InjectSend("w1")
  \/ Finalize("w1")
  \/ SimSearch("w1")
  \/ SimFind("w1")
  \/ SimSend("w1")
  \/ SimFinalize("w1")
  \/ \E u \in Users : HubspotCallback(u)
  \/ \E u \in Users : sync_gmail_emails(u)
  \/ sync_hubspot_contacts("u2")

SpecEvents == Init /\ [][NextEvents]_vars

\* One task of one owner whose User row may be removed from the store.
NextOwner ==
  \/ \E d \in Descriptions : tasks = <<>> /\ PostTask("w1", "u1", d, <<>>)
  \/ RunBackground("w1")
  \/ PlannerReturns("w1", WorkerOutputs)
  \/ ExecProposal("w1")
  \/ InjectFind("w1")
  \/ InjectSend("w1")
  \/ Finalize("w1")
  \/ SimSearch("w1")
  \/ SimFind("w1")
  \/ SimSend("w1")
  \/ SimFinalize("w1")
  \/ sync_gmail_emails("u1")
  \/ UserRowRemoved("u1")

SpecOwner == Init /\ [][NextOwner]_vars

\* The archive search: one task of one owner over an archive that does not
\* change during the pass.  The archive is any sequence of distinct stored
\* messages of the two owners; the planner proposes searches of the
\* archive by name, or a CRM search that fails and brings the fallback.
MaxArchive == 5   \* GmailEmail rows

Message(u, gmail_id, from_name, from_addr, angle, body) ==
  [user_id |-> u, gmail_id |-> gmail_id, from_name |-> from_name, from_addr |-> from_addr,
   angle |-> angle, subject |-> <<"hello">>, body |-> body]

ArchivePool ==
  {Message("u1", "m1", <<"Sara", "Smith">>, "sara.smith@example.com", TRUE,
           <<"see", "you", "soon">>),
   Message("u1", "m2", <<>>, "selina@example.com", FALSE, <<"call", "Sara", "Jones">>),
   Message("u2", "m3", <<"Bob">>, "bob@example.com", TRUE, <<"hello", "Sara", "Jones">>),
   Message("u1", "m4", <<"Sara", "Smith">>, "sara.smith@example.com", TRUE, <<"thanks">>),
   Message("u1", "m5", <<>>, "bob@example.com", FALSE, <<"Sara", "Smith", "called">>),
   Message("u1", "m6", <<>>, "selina@example.com", FALSE, <<"book", "a", "room">>)}

Archives ==
  {a \in SeqsUpTo(ArchivePool, MaxArchive) :
     \A j, k \in 1..Len(a) : j # k => a[j].gmail_id # a[k].gmail_id}

FindSaraCall == Call("find_contact_info", TRUE, {"name"}, <<"Sara", "Smith">>)
FindSmithSaraCall == Call("find_contact_info", TRUE, {"name"}, <<"Smith", "Sara">>)
FindNobodyCall == Call("find_contact_info", TRUE, {"name"}, <<"Check">>)

FindOutputs ==
  {<<FindSaraCall>>, <<FindSaraCall, FindSmithSaraCall>>, <<FindNobodyCall>>,
   <<SearchCall>>, <<SearchCall, SearchCall, FindSaraCall, SendCall>>}

InitFind ==
  /\ hubLinked = [u \in Users |-> FALSE]
  /\ emails \in Archives
  /\ tasks = <<>>
  /\ bg = [w \in Workers |-> <<>>]
  /\ pass = [w \in Workers |-> Idle]
  /\ users = Users
  /\ instructions = <<>>
  /\ contacts = <<>>
  /\ notes = <<>>
  /\ posts = <<>>
  /\ outbox = <<>>
  /\ meetings = <<>>

NextFind ==
  \/ tasks = <<>>
       /\ PostTask("w1", "u1", <<"Schedule", "an", "appointment", "with", "Sara", "Smith">>, <<>>)
  \/ RunBackground("w1")
  \/ PlannerReturns("w1", FindOutputs)
  \/ ExecProposal("w1")
  \/ InjectFind("w1")
  \/ InjectSend("w1")
  \/ Finalize("w1")

SpecFind == InitFind /\ [][NextFind]_vars

\* The synchronizations: both owners link the CRM and run the two syncs in
\* any order and any number of times, while a task of one owner creates a
\* contact and notes through the adapters.
SyncOutputs == {<<CreateWithNoteCall>>, <<CreateWithNoteCall, NoteSaraCall>>}

NextSync ==
  \/ \E u \in Users : sync_gmail_emails(u)
  \/ \E u \in Users : sync_hubspot_contacts(u)
  \/ \E u \in Users : HubspotCallback(u)
  \/ \E u \in Users : HubspotDisconnect(u)
  \/ tasks = <<>> /\ PostTask("w1", "u1", <<"book", "a", "room">>, <<>>)
  \/ RunBackground("w1")
  \/ PlannerReturns("w1", SyncOutputs)
  \/ ExecProposal("w1")
  \/ Finalize("w1")

SpecSync == Init /\ [][NextSync]_vars

\* One task of one owner over a store whose commits may fail.
NextFaults ==
  \/ \E d \in Descriptions : tasks = <<>> /\ PostTask("w1", "u1", d, <<>>)
  \/ \E d \in Descriptions : tasks = <<>> /\ ChatMessage("w1", "u1", d)
  \/ RunBackground("w1")
  \/ PlannerReturns("w1", PlannerOutputs)
  \/ ExecProposal("w1")
  \/ InjectFind("w1")
  \/ InjectSend("w1")
  \/ Finalize("w1")
  \/ SimSearch("w1")
  \/ SimFind("w1")
  \/ SimSend("w1")
  \/ SimFinalize("w1")
  \/ StoreFails("w1")
  \/ Propagate("w1")
  \/ sync_gmail_emails("u1")

SpecFaults == Init /\ [][NextFaults]_vars

\* One task of one owner in one server process where every call of the
\* pass returns: the planner call and each adapter call answer or raise,
\* so each step of a started pass is taken sooner or later.
LiveOutputs ==
  {<<>>, <<SearchCall>>, <<SearchCall, SendCall>>, <<SearchCall, BadJsonCall>>,
   <<UnknownCall, BadKeysCall>>}

NextLive ==
  \/ \E d \in Descriptions : tasks = <<>> /\ PostTask("w1", "u1", d, <<>>)
  \/ \E d \in Descriptions : tasks = <<>> /\ ChatMessage("w1", "u1", d)
  \/ RunBackground("w1")
  \/ PlannerReturns("w1", LiveOutputs)
  \/ ExecProposal("w1")
  \/ InjectFind("w1")
  \/ InjectSend("w1")
  \/ Finalize("w1")
  \/ SimSearch("w1")
  \/ SimFind("w1")
  \/ SimSend("w1")
  \/ SimFinalize("w1")
  \/ HubspotCallback("u1")
  \/ sync_gmail_emails("u1")

PassReturns ==
  /\ WF_vars(PlannerReturns("w1", LiveOutputs))
  /\ WF_vars(ExecProposal("w1"))
  /\ WF_vars(InjectFind("w1"))
  /\ WF_vars(InjectSend("w1"))
  /\ WF_vars(Finalize("w1"))
  /\ WF_vars(SimSearch("w1"))
  /\ WF_vars(SimFind("w1"))
  /\ WF_vars(SimSend("w1"))
  /\ WF_vars(SimFinalize("w1"))

SpecLive == Init /\ [][NextLive]_vars /\ PassReturns

\* ------------------------------------------------------------------ claims
SearchTool == "search_hubspot_contacts"

\* the step of server process w that ends a pass at its finalization
Finishing(w) == pass[w].pc \in {"final", "sim_final"} /\ pass'[w].pc = "idle"

\* C1: the status of a task changes only along pending -> in_progress and
\* in_progress -> completed, waiting_response or failed.
AllowedEdge(a, b) ==
  \/ a = "pending" /\ b = "in_progress"
  \/ a = "in_progress" /\ b \in {"completed", "waiting_response", "failed"}

C1_StatusEdges ==
  [][\A t \in 1..Len(tasks) :
       tasks'[t].status # tasks[t].status
         => AllowedEdge(tasks[t].status, tasks'[t].status)]_vars

\* C2: a pass that finalizes stores its whole trace and sets the status by
\* priority: waiting_response if a send_email outcome succeeded, else
\* completed if any outcome succeeded, else failed (both paths).
C2_FinalizationPolicy ==
  [][\A w \in Workers :
       Finishing(w) =>
         LET t == pass[w].task
             tr == tasks'[t].tool_results
             sent == \E k \in 1..Len(tr) :
                       tr[k].tool = "send_email" /\ tr[k].result.success = "true"
             any == \E k \in 1..Len(tr) : tr[k].result.success = "true"
         IN /\ tr = pass[w].results
            /\ sent => tasks'[t].status = "waiting_response"
            /\ (~sent /\ any) => tasks'[t].status = "completed"
            /\ ~any => tasks'[t].status = "failed"]_vars

C2_Witness ==
  \E t \in 1..Len(tasks) :
    /\ tasks[t].status = "waiting_response"
    /\ Len(tasks[t].tool_results) >= 2
    /\ tasks[t].tool_results[1].result.success # "true"

\* C3: at finalization the trace holds an injected find_contact_info entry
\* if a search_hubspot_contacts outcome has success false, and none if every
\* search_hubspot_contacts outcome has success true (an empty result list
\* included).
C3_FallbackInjection ==
  [][\A w \in Workers :
       Finishing(w) =>
         LET tr == tasks'[pass[w].task].tool_results
             \* the entries that are not injected: the planner's proposals,
             \* or the search the minimal workflow starts with
             n == IF pass[w].pc = "final" THEN Len(pass[w].calls) ELSE 1
             failed == \E k \in 1..n :
                         tr[k].tool = SearchTool /\ tr[k].result.success = "false"
             allTrue == \A k \in 1..n :
                          tr[k].tool = SearchTool => tr[k].result.success = "true"
         IN /\ Len(tr) >= n
            /\ failed => (Len(tr) > n /\ tr[n + 1].tool = "find_contact_info")
            /\ allTrue => Len(tr) = n]_vars

\* a finalized trace whose search succeeded with no result and that holds
\* no fallback entry
C3_Witness ==
  \E t \in 1..Len(tasks) :
    /\ tasks[t].has_trace
    /\ Len(tasks[t].tool_results) = 1
    /\ tasks[t].tool_results[1].tool = SearchTool
    /\ tasks[t].tool_results[1].result.success = "true"
    /\ tasks[t].tool_results[1].result.results = <<>>

\* C4: when the CRM search failed, the injected fallback found no candidate
\* and no proposal of the planner succeeded, the task ends failed with a
\* result that says no contact was found.
NoContactTexts ==
  {"Could not complete task - no contacts found", "Could not find contact information"}

C4_ScenarioC ==
  [][\A w \in Workers :
       (Finishing(w) /\ pass[w].pc = "final") =>
         LET t == pass[w].task
             r == pass[w].results
             n == Len(pass[w].calls)
         IN (/\ \E k \in 1..n : r[k].tool = SearchTool /\ r[k].result.success = "false"
             /\ \A k \in 1..n : r[k].result.success # "true"
             /\ Len(r) = n + 1
             /\ r[n + 1].tool = "find_contact_info"
             /\ r[n + 1].result.results = <<>>)
            => (tasks'[t].status = "failed" /\ tasks'[t].result \in NoContactTexts)]_vars

\* C5: no two passes run on the same task at the same time.
C5_OnePassPerTask ==
  \A w1 \in Workers, w2 \in Workers :
    (w1 # w2 /\ pass[w1].pc # "idle" /\ pass[w2].pc # "idle")
      => pass[w1].task # pass[w2].task

\* C6: no tool call of a pass is made while the stored status of its task
\* is still pending.
C6_InProgressBeforeTools ==
  [][\A w \in Workers :
       Len(pass'[w].results) > Len(pass[w].results)
         => tasks[pass[w].task].status # "pending"]_vars

C6_Witness ==
  \E w \in Workers :
    /\ pass[w].pc = "loop"
    /\ Len(pass[w].results) >= 1
    /\ tasks[pass[w].task].status = "in_progress"

\* C7: a pass that an exception ends leaves the task failed with the error
\* as result and with the invocations made so far in context.tool_results.
C7_TracePreserved ==
  [][\A w \in Workers :
       (pass[w].pc = "loop" /\ pass'[w].pc = "idle" /\ pass[w].results # <<>>) =>
         LET t == pass[w].task
         IN /\ tasks'[t].status = "failed"
            /\ tasks'[t].result # ""
            /\ tasks'[t].has_trace
            /\ tasks'[t].tool_results = pass[w].results]_vars

\* C8: every entry of a task's tool_results is the record of an adapter
\* call: a proposal naming a tool outside the catalog leaves no entry.
C8_OnlyAdapterCalls ==
  \A t \in 1..Len(tasks) :
    \A k \in 1..Len(tasks[t].tool_results) :
      tasks[t].tool_results[k].tool \in ToolNames

\* C9: a proposal that fails validation does not end the pass: from the
\* loop over the proposals the pass goes on to the next proposal or to
\* the fallback and the finalization.
C9_ValidationIsLocal ==
  [][\A w \in Workers : pass[w].pc = "loop" => pass'[w].pc # "idle"]_vars

\* C10: the entries of the trace are the outcomes of the planner's
\* proposals in the planner's order, one for each proposal executed, and
\* the loop ends only when every proposal has its entry, whatever the
\* outcomes were.
C10_ProposalOrder ==
  \A w \in Workers :
    pass[w].pc \in {"loop", "fallback", "send", "final"} =>
      LET p == pass[w]
          done == IF p.pc = "loop" THEN p.i - 1 ELSE Len(p.calls)
      IN /\ Len(p.results) >= done
         /\ p.pc = "loop" => Len(p.results) = done /\ done < Len(p.calls)
         /\ \A k \in 1..done :
              /\ p.results[k].tool = p.calls[k].tool
              /\ p.results[k].arguments = p.calls[k].arguments

\* both proposals have their entry although the first one failed
C10_Witness ==
  \E w \in Workers :
    /\ pass[w].pc = "final"
    /\ Len(pass[w].calls) = 2
    /\ Len(pass[w].results) = 2
    /\ pass[w].results[1].result.success # "true"

\* C11: a pass whose planner proposes no tool call runs the minimal
\* workflow once (one CRM search, then at most one archive fallback, then
\* at most one email, in this order) and its status is set by the same
\* priority: waiting_response, else completed, else failed.
C11_MinimalWorkflow ==
  [][\A w \in Workers :
       (Finishing(w) /\ pass[w].calls = <<>>) =>
         LET t == pass[w].task
             tr == tasks'[t].tool_results
             sent == \E k \in 1..Len(tr) :
                       tr[k].tool = "send_email" /\ tr[k].result.success = "true"
             any == \E k \in 1..Len(tr) : tr[k].result.success = "true"
         IN /\ pass[w].pc = "sim_final"
            /\ tr = pass[w].results
            /\ Len(tr) \in 1..3
            /\ tr[1].tool = SearchTool
            /\ Len(tr) >= 2 => (tr[2].tool = "find_contact_info"
                                /\ tr[1].result.success # "true")
            /\ Len(tr) = 3 => tr[3].tool = "send_email"
            /\ tasks'[t].status = (IF sent THEN "waiting_response"
                                   ELSE IF any THEN "completed" ELSE "failed")]_vars

\* the three calls of the minimal workflow, ending in waiting_response
C11_Witness ==
  \E t \in 1..Len(tasks) :
    /\ tasks[t].has_trace
    /\ Len(tasks[t].tool_results) = 3
    /\ tasks[t].tool_results[1].arguments.v = DefaultName
    /\ tasks[t].status = "waiting_response"

\* C12 (Scenario A): for the task "Schedule an appointment with Sara
\* Smith" a CRM search of an owner without CRM account gives success false,
\* the fallback runs with the name tokens sara, smith, and when the
\* archive holds a message from sara.smith@example.com exactly one
\* send_email call is appended; the task then ends in waiting_response
\* (as stated: whatever the send answers; as amended: when the send
\* succeeds).
SaraDescription == <<"Schedule", "an", "appointment", "with", "Sara", "Smith">>

HasMailFrom(u, addr) ==
  \E k \in 1..Len(emails) : emails[k].user_id = u /\ emails[k].from_addr = addr

ScenarioA(w, whatever_the_send) ==
  LET p == pass[w]
      t == p.task
      u == tasks[t].user_id
      n == Len(p.calls)
      r == pass'[w].results
  IN (/\ p.pc \in {"loop", "fallback", "final"}
      /\ pass'[w] # p
      /\ tasks[t].description = SaraDescription) =>
       \* the CRM search of an owner without account
       /\ (/\ p.pc = "loop" /\ pass'[w].pc # "idle"
           /\ p.calls[p.i] = SearchCall /\ ~hubLinked[u])
            => r[Len(r)].result.success = "false"
       \* the fallback
       /\ p.pc = "fallback" =>
            /\ r[Len(r)].tool = "find_contact_info"
            /\ r[Len(r)].arguments.v = <<"sara", "smith">>
            /\ HasMailFrom(u, "sara.smith@example.com") => pass'[w].pc = "send"
       \* the end of the pass after a fallback that found a candidate
       /\ (/\ p.pc = "final" /\ pass'[w].pc = "idle"
           /\ Len(p.results) > n
           /\ p.results[n + 1].result.results # <<>>)
            => /\ Len(p.results) = n + 2
               /\ p.results[n + 2].tool = "send_email"
               /\ (whatever_the_send \/ p.results[n + 2].result.success = "true")
                    => tasks'[t].status = "waiting_response"

C13_InjectedSend ==
  [][\A w \in Workers :
       LET p == pass[w]
           q == pass'[w]
       IN /\ (p.pc \in {"fallback", "sim_find"} /\ q # p) =>
               LET g == q.results[Len(q.results)]
               IN /\ Len(q.results) = Len(p.results) + 1
                  /\ g.tool = "find_contact_info"
                  /\ q.pc \in {"send", "sim_send"}
                       <=> (g.result.success = "true" /\ Len(g.result.results) >= 1)
          /\ (p.pc \in {"send", "sim_send"} /\ q # p) =>
               LET g == p.results[Len(p.results)]
                   e == q.results[Len(q.results)]
               IN /\ Len(q.results) = Len(p.results) + 1
                  /\ g.tool = "find_contact_info"
                  /\ e.tool = "send_email"
                  /\ e.arguments.v = <<g.result.results[1].email>>
          /\ (q.pc \in {"send", "sim_send"} /\ q # p) => p.pc \in {"fallback", "sim_find"}]_vars

\* the fallback found two candidates and the email went to the first
C13_Witness ==
  \E t \in 1..Len(tasks) :
    /\ Len(tasks[t].tool_results) = 3
    /\ tasks[t].tool_results[2].tool = "find_contact_info"
    /\ Len(tasks[t].tool_results[2].result.results) = 2
    /\ tasks[t].tool_results[3].tool = "send_email"
    /\ tasks[t].tool_results[3].arguments.v
         = <<tasks[t].tool_results[2].result.results[1].email>>

\* C14: the name the injected archive fallback is run with comes from the
\* task: each of its words is a word of the task description or of the
\* name given in the task context.
C14_NameFromTask ==
  [][\A w \in Workers :
       (pass[w].pc \in {"fallback", "sim_find"} /\ pass'[w] # pass[w]) =>
         LET t == pass[w].task
             g == pass'[w].results[Len(pass'[w].results)]
         IN Words(LowerAll(g.arguments.v))
              \subseteq Words(LowerAll(tasks[t].description))
                          \cup Words(LowerAll(tasks[t].context.name))]_vars

\* C15: add_note for a contact_email that is not among the owner's stored
\* contacts answers success false with the error "Contact not found",
\* sends no note-creation request and stores no note, with or without a
\* linked CRM account.
C15_NoteNeedsContact ==
  [][\A w \in Workers :
       (/\ pass[w].pc = "loop"
        /\ pass'[w] # pass[w]
        /\ pass[w].calls[pass[w].i].wellformed
        /\ pass[w].calls[pass[w].i].tool = "add_hubspot_note"
        /\ pass[w].calls[pass[w].i].arguments.keys = {"contact_email", "note"}
        /\ ~\E k \in 1..Len(contacts) :
              /\ contacts[k].user_id = tasks[pass[w].task].user_id
              /\ contacts[k].email = pass[w].calls[pass[w].i].arguments.v[1])
         => LET e == pass'[w].results[Len(pass'[w].results)]
            IN /\ e.tool = "add_hubspot_note"
               /\ e.result.success = "false"
               /\ e.result.error = "Contact not found"
               /\ posts' = posts
               /\ notes' = notes]_vars

\* a note for an absent contact was refused while the owner had a linked
\* account and another contact stored
C15_Witness ==
  \E w \in Workers :
    /\ pass[w].pc # "idle"
    /\ hubLinked[tasks[pass[w].task].user_id]
    /\ contacts # <<>>
    /\ pass[w].results # <<>>
    /\ LET e == pass[w].results[Len(pass[w].results)]
       IN /\ e.tool = "add_hubspot_note"
          /\ e.result.error = "Contact not found"
          /\ \A k \in 1..Len(contacts) : contacts[k].email # e.arguments.v[1]

\* C16: every call through execute_tool answers with an outcome that has
\* a success field, and a failed call answers success false with an error
\* message; nothing is raised to the caller.
C16_StructuredOutcome ==
  \A w \in Workers :
    \A k \in 1..Len(pass[w].results) :
      LET o == pass[w].results[k].result
      IN /\ o.success \in {"true", "false"}
         /\ o.success = "false" => o.error # ""

\* the step in which server process w runs check_proactive_actions: the
\* slot at the head of its background functions is taken (a webhook adds
\* one at the end)
Checking(w) ==
  /\ pass[w].pc = "idle"
  /\ bg[w] # <<>>
  /\ Head(bg[w]).fn = "check_proactive_actions"
  /\ bg'[w] # bg[w]
  /\ Len(bg'[w]) <= Len(bg[w])

\* C17: check_proactive_actions creates and processes a task only if the
\* owner has an instruction with is_active true at that moment; without
\* one it creates no task and starts no pass, so neither the planner nor an
\* adapter is called.
C17_OnlyActiveInstructions ==
  [][\A w \in Workers :
       Checking(w) =>
         LET u == Head(bg[w]).user
             active == \E k \in 1..Len(instructions) :
                         instructions[k].user_id = u /\ instructions[k].is_active
         IN /\ (tasks' # tasks \/ pass' # pass) => active
            /\ ~active => (tasks' = tasks /\ pass' = pass
                           /\ contacts' = contacts /\ notes' = notes /\ posts' = posts)]_vars

\* a task of a proactive check exists for an owner who has toggled one
\* instruction off and has another one active
C17_Witness ==
  \E t \in 1..Len(tasks) :
    /\ tasks[t].context.trigger = "proactive_check"
    /\ \E k \in 1..Len(instructions) :
         instructions[k].user_id = tasks[t].user_id /\ ~instructions[k].is_active
    /\ \E k \in 1..Len(instructions) :
         instructions[k].user_id = tasks[t].user_id /\ instructions[k].is_active

\* C18: with one or more active instructions of the owner,
\* check_proactive_actions creates exactly one task, whose context holds
\* the event type, the event data and trigger "proactive_check", and
\* processes it itself: the pass on the new task starts inside the call
\* and nothing is left to a background slot.
C18_OneTaskPerEvent ==
  [][\A w \in Workers :
       (/\ Checking(w)
        /\ \E k \in 1..Len(instructions) :
             instructions[k].user_id = Head(bg[w]).user /\ instructions[k].is_active)
         => LET job == Head(bg[w])
                new == tasks'[Len(tasks')]
            IN /\ Len(tasks') = Len(tasks) + 1
               /\ SubSeq(tasks', 1, Len(tasks)) = tasks
               /\ new.user_id = job.user
               /\ new.context.trigger = "proactive_check"
               /\ new.context.event_type = job.event_type
               /\ new.context.event_data = job.user
               /\ pass'[w].pc # "idle"
               /\ pass'[w].task = Len(tasks')
               /\ \A k \in 1..Len(bg'[w]) : bg'[w][k].task # Len(tasks')]_vars

\* one processed task of a proactive check for an owner with two active
\* instructions
C18_Witness ==
  /\ Len(tasks) = 1
  /\ tasks[1].context.trigger = "proactive_check"
  /\ tasks[1].status \notin {"pending", "in_progress"}
  /\ Cardinality({k \in 1..Len(instructions) :
                    instructions[k].user_id = tasks[1].user_id /\ instructions[k].is_active}) >= 2

\* C19 (Scenario D): a webhook event for an owner with an active
\* instruction creates exactly one task, of that owner, and whether the
\* task is created and how it ends depends on no row of another owner:
\* every step of the check and of the pass gives what it gives when the
\* instructions, messages, contacts and CRM links of the other owners are
\* taken away, and a step that changes rows of another owner changes
\* neither the tasks nor the pass.
OwnRows(rows, u) == SelectSeq(rows, LAMBDA r : r.user_id = u)

OwnLinks(u) == [x \in Users |-> x = u /\ hubLinked[x]]

C19_OwnerIsolation ==
  [][\A w \in Workers :
       /\ Checking(w) =>
            LET u == Head(bg[w]).user
                own == OwnRows(instructions, u)
                active == \E k \in 1..Len(own) : own[k].is_active
            IN IF active
               THEN /\ Len(tasks') = Len(tasks) + 1
                    /\ tasks'[Len(tasks')].user_id = u
                    /\ pass'[w].task = Len(tasks')
               ELSE tasks' = tasks /\ pass' = pass
       /\ (pass[w].pc # "idle" /\ Len(pass'[w].results) > Len(pass[w].results)) =>
            LET u == tasks[pass[w].task].user_id
                e == pass'[w].results[Len(pass'[w].results)]
            IN /\ Len(pass'[w].results) = Len(pass[w].results) + 1
               /\ \E remote \in BOOLEAN, follow \in Follows(e.tool) :
                    e.result = execute_tool(OwnRows(emails, u), OwnRows(contacts, u),
                                            OwnLinks(u), u, e.tool, e.arguments, remote, follow)
       /\ (tasks' # tasks \/ pass' # pass) =>
            \A u \in Users :
              (\/ OwnRows(instructions', u) # OwnRows(instructions, u)
               \/ OwnRows(emails', u) # OwnRows(emails, u)
               \/ OwnRows(contacts', u) # OwnRows(contacts, u)
               \/ OwnRows(tasks', u) # OwnRows(tasks, u)
               \/ hubLinked'[u] # hubLinked[u])
                => \A t \in 1..Len(tasks) :
                     tasks[t].user_id # u =>
                       /\ tasks'[t] = tasks[t]
                       /\ pass[w].task = t => pass'[w] = pass[w]]_vars

\* the archive fallback of a proactive task ran while another owner had a
\* matching message, a contact and a task stored, a linked CRM account and
\* an active instruction
C19_Witness ==
  \E t \in 1..Len(tasks), u \in Users :
    /\ tasks[t].context.trigger = "proactive_check"
    /\ u # tasks[t].user_id
    /\ tasks[t].has_trace
    /\ \E k \in 1..Len(tasks[t].tool_results) :
         /\ tasks[t].tool_results[k].tool = "find_contact_info"
         /\ \E m \in 1..Len(emails) :
              /\ emails[m].user_id = u
              /\ NameMatch(emails[m], LowerAll(tasks[t].tool_results[k].arguments.v))
         /\ Len(tasks[t].tool_results[k].result.results) = 1
    /\ hubLinked[u]
    /\ ~NoTaskOf(u)
    /\ OwnRows(contacts, u) # <<>>
    /\ \E k \in 1..Len(instructions) :
         instructions[k].user_id = u /\ instructions[k].is_active

\* C20: when process_task returns, on any of its return paths, the task it
\* was called on has a result that is not empty and a status other than
\* pending.
C20_ProcessedHasResult ==
  [][\A w \in Workers :
       LET \* the pass that was running ends
           ended == pass[w].pc # "idle" /\ pass'[w].pc = "idle"
           \* process_task is called from a background slot and returns at once
           refused == /\ pass[w].pc = "idle" /\ pass'[w].pc = "idle"
                      /\ bg[w] # <<>>
                      /\ Head(bg[w]).fn = "process_task"
                      /\ bg'[w] = Tail(bg[w])
           t == IF ended THEN pass[w].task ELSE Head(bg[w]).task
       IN (ended \/ refused) =>
            (tasks'[t].result # "" /\ tasks'[t].status # "pending")]_vars

\* the step in which the pass of server process w appends the entry of a
\* send_email call that reached the adapter
Sends(w) ==
  /\ Len(pass'[w].results) = Len(pass[w].results) + 1
  /\ pass'[w].results[Len(pass'[w].results)].tool = "send_email"
  /\ pass'[w].results[Len(pass'[w].results)].result.success # "none"

\* C21: an invocation of send_email makes exactly one request to the
\* remote mail service, delivered exactly when the entry says success
\* true, and no other step makes a request: a failed send is not made again.
C21_SendOnce ==
  [][/\ \A w \in Workers :
          Sends(w) =>
            LET e == pass'[w].results[Len(pass'[w].results)]
            IN outbox' = Append(outbox, [user_id |-> tasks[pass[w].task].user_id,
                                         to |-> e.arguments.v[1],
                                         delivered |-> e.result.success = "true"])
     /\ (\A w \in Workers : ~Sends(w)) => outbox' = outbox]_vars

\* a send has failed and the remote mail service has seen one request
C21_Witness ==
  \E w \in Workers :
    /\ pass[w].results # <<>>
    /\ pass[w].results[Len(pass[w].results)].tool = "send_email"
    /\ pass[w].results[Len(pass[w].results)].result.success = "false"
    /\ Len(outbox) = 1
    /\ ~outbox[1].delivered

\* the step in which server process w takes a process_task slot from its
\* background functions
Starting(w) ==
  /\ pass[w].pc = "idle"
  /\ bg[w] # <<>>
  /\ Head(bg[w]).fn = "process_task"
  /\ bg'[w] = Tail(bg[w])

DeliveredTo(box, u) ==
  SelectSeq(box, LAMBDA r : r.user_id = u /\ r.delivered)

SentBefore(t) ==
  \E k \in 1..Len(tasks[t].tool_results) :
    /\ tasks[t].tool_results[k].tool = "send_email"
    /\ tasks[t].tool_results[k].result.success = "true"

\* C22: process_task on a task in waiting_response starts a pass as on
\* any other task, and a send_email of that pass that succeeds delivers one
\* more message although the stored trace holds a successful send.
C22_NotIdempotent ==
  [][\A w \in Workers :
       /\ (Starting(w) /\ tasks[Head(bg[w]).task].status = "waiting_response")
            => /\ pass'[w].pc = "planner"
               /\ pass'[w].task = Head(bg[w]).task
       /\ (/\ Sends(w)
           /\ SentBefore(pass[w].task)
           /\ pass'[w].results[Len(pass'[w].results)].result.success = "true")
            => LET u == tasks[pass[w].task].user_id
               IN /\ DeliveredTo(outbox, u) # <<>>
                  /\ Len(DeliveredTo(outbox', u)) = Len(DeliveredTo(outbox, u)) + 1]_vars

\* the task is in waiting_response after a second pass and two messages
\* were delivered to the same address
C22_Witness ==
  /\ Len(tasks) = 1
  /\ tasks[1].status = "waiting_response"
  /\ \A w \in Workers : pass[w].pc = "idle"
  /\ Len(outbox) >= 2
  /\ outbox[1].delivered /\ outbox[2].delivered
  /\ outbox[1].to = outbox[2].to

\* the messages of owner u that hold a lowercase token of the name in the
\* sender header or in the body
Matching(u, name) ==
  SelectSeq(emails,
            LAMBDA m : /\ m.user_id = u
                       /\ \E token \in Words(LowerAll(name)) :
                            token \in SenderLower(m) \/ token \in BodyLower(m))

\* C23: find_contact_info answers success true also when no message
\* matches (then with no candidate), gives at most 3 candidates, and each
\* candidate is the sender of a message of the requesting owner that holds
\* a lowercase token of the name in its sender header or its body.
C23_ArchiveSearch ==
  \A w \in Workers :
    \A k \in 1..Len(pass[w].results) :
      LET e == pass[w].results[k]
          u == tasks[pass[w].task].user_id
          found == Matching(u, e.arguments.v)
      IN (e.tool = "find_contact_info" /\ e.result.success # "none")
           => /\ e.result.success = "true"
              /\ Len(e.result.results) <= 3
              /\ found = <<>> => e.result.results = <<>>
              /\ \A j \in 1..Len(e.result.results) :
                   \E n \in 1..Len(found) : e.result.results[j] = Candidate(found[n])

\* a search gave three candidates where four messages of the owner match,
\* beside a message of another owner that matches too
C23_Witness ==
  \E w \in Workers :
    \E k \in 1..Len(pass[w].results) :
      LET e == pass[w].results[k]
      IN /\ e.tool = "find_contact_info"
         /\ Len(e.result.results) = 3
         /\ Len(Matching(tasks[pass[w].task].user_id, e.arguments.v)) = 4
         /\ \E n \in 1..Len(emails) : emails[n].user_id # tasks[pass[w].task].user_id

\* a search found nothing and answered success true
C23_WitnessEmpty ==
  \E w \in Workers :
    \E k \in 1..Len(pass[w].results) :
      /\ pass[w].results[k].tool = "find_contact_info"
      /\ pass[w].results[k].result.success = "true"
      /\ pass[w].results[k].result.results = <<>>
      /\ emails # <<>>

\* the step in which the pass of server process w appends the entry of a
\* find_contact_info call that reached the adapter
Finds(w) ==
  /\ Len(pass'[w].results) = Len(pass[w].results) + 1
  /\ pass'[w].results[Len(pass'[w].results)].tool = "find_contact_info"
  /\ pass'[w].results[Len(pass'[w].results)].result.success # "none"

\* C24: a find_contact_info call changes no stored record and makes no
\* remote request, and over the unchanged archive it gives the candidates
\* that every earlier call of the pass with the same set of name tokens gave.
C24_FindIdempotent ==
  [][\A w \in Workers :
       Finds(w) =>
         LET e == pass'[w].results[Len(pass'[w].results)]
         IN /\ emails' = emails /\ tasks' = tasks
            /\ contacts' = contacts /\ notes' = notes /\ meetings' = meetings
            /\ posts' = posts /\ outbox' = outbox
            /\ \A k \in 1..Len(pass[w].results) :
                 LET f == pass[w].results[k]
                 IN (/\ f.tool = "find_contact_info"
                     /\ f.result.success # "none"
                     /\ Words(LowerAll(f.arguments.v)) = Words(LowerAll(e.arguments.v)))
                      => Words(f.result.results) = Words(e.result.results)]_vars

\* two calls of one pass named the same tokens in another order and gave
\* the same candidates, fewer than the messages that match
C24_Witness ==
  \E w \in Workers :
    \E j, k \in 1..Len(pass[w].results) :
      LET f == pass[w].results[j]
          e == pass[w].results[k]
      IN /\ j < k
         /\ f.tool = "find_contact_info" /\ e.tool = "find_contact_info"
         /\ f.arguments.v # e.arguments.v
         /\ Words(LowerAll(f.arguments.v)) = Words(LowerAll(e.arguments.v))
         /\ e.result.results # <<>>
         /\ f.result.results = e.result.results
         /\ Len(Matching(tasks[pass[w].task].user_id, e.arguments.v)) > Len(e.result.results)

\* the owner whose synchronization added the last row of a store
LastOwner(rows) == rows[Len(rows)].user_id

\* C25: the store never holds two GmailEmail rows with one gmail_id, two
\* HubspotContact rows with one hubspot_id or two HubspotNote rows with one
\* hubspot_id, and after a synchronization of an owner another one over the
\* same remote data finds nothing new: its counts of new records are 0.
C25_SyncNoDuplicates ==
  [][/\ \A j, k \in 1..Len(emails') : j # k => emails'[j].gmail_id # emails'[k].gmail_id
     /\ \A j, k \in 1..Len(contacts') :
          j # k => contacts'[j].hubspot_id # contacts'[k].hubspot_id
     /\ \A j, k \in 1..Len(notes') : j # k => notes'[j].hubspot_id # notes'[k].hubspot_id
     /\ \A u \in Users :
          /\ (emails' # emails /\ LastOwner(emails') = u)
               => (NewEmails(RemoteMail(u), u) = <<>>)'
          /\ (/\ pass' = pass
              /\ \/ contacts' # contacts /\ LastOwner(contacts') = u
                 \/ notes' # notes /\ LastOwner(notes') = u)
               => /\ (NewContacts(RemoteContacts(u), u) = <<>>)'
                  /\ (NewNotes(RemoteContacts(u), u) = <<>>)']_vars

\* both owners have synchronized their mail and their CRM, and the store
\* holds notes the sync fetched beside a note the adapter created
C25_Witness ==
  /\ \A u \in Users :
       /\ \E k \in 1..Len(emails) : emails[k].user_id = u
       /\ \E k \in 1..Len(contacts) : contacts[k].user_id = u
       /\ \E k \in 1..Len(notes) : notes[k].user_id = u /\ notes[k].hubspot_id[1] = "remote"
  /\ \E k \in 1..Len(notes) : notes[k].hubspot_id[1] = "created"

\* C26: while a pass runs, its trace only grows at the end, and when the
\* pass ends the tool_results stored on the task are the invocations of
\* the pass in the order they were made.
C26_TraceAppendOnly ==
  [][\A w \in Workers :
       pass[w].pc # "idle" =>
         /\ pass'[w].pc # "idle" =>
              /\ Len(pass'[w].results) >= Len(pass[w].results)
              /\ SubSeq(pass'[w].results, 1, Len(pass[w].results)) = pass[w].results
         /\ pass'[w].pc = "idle" =>
              tasks'[pass[w].task].tool_results = pass[w].results]_vars

\* the step in which the pass of server process w ends otherwise than by
\* its finalization (each task of the specification is processed once)
EndsByFault(w) ==
  /\ pass[w].pc \notin {"idle", "raised"}
  /\ pass'[w].pc \in {"idle", "raised"}
  /\ ~tasks'[pass[w].task].has_trace

\* C27: no fault of a running pass leaves process_task as an exception: a
\* planner failure, malformed arguments of a proposal and a failure of the
\* store all end with a normal return and the task marked failed.
C27_NoEscapingFault ==
  [][\A w \in Workers :
       EndsByFault(w) =>
         /\ pass'[w].pc = "idle"
         /\ tasks'[pass[w].task].status = "failed"]_vars

\* C28: a pass that finalizes after the planner's proposals has appended
\* to their entries at most one injected find_contact_info and, after it,
\* at most one injected send_email, whatever the planner proposed and
\* however many of its searches failed.
C28_FallbackOnce ==
  [][\A w \in Workers :
       (pass[w].pc = "final" /\ pass'[w].pc = "idle") =>
         LET tr == pass[w].results
             n == Len(pass[w].calls)
         IN /\ Len(tr) >= n
            /\ \A k \in 1..n : tr[k].tool = pass[w].calls[k].tool
            /\ Len(tr) <= n + 2
            /\ Len(tr) > n => tr[n + 1].tool = "find_contact_info"
            /\ Len(tr) = n + 2 => tr[n + 2].tool = "send_email"]_vars

\* the planner proposed two searches that failed, a find_contact_info and
\* a send_email, and the pass added one find_contact_info and one send_email
C28_Witness ==
  \E w \in Workers :
    /\ pass[w].pc = "final"
    /\ Len(pass[w].calls) = 4
    /\ Len(pass[w].results) = 6
    /\ ~Truthy(pass[w].results[1].result) /\ ~Truthy(pass[w].results[2].result)
    /\ pass[w].results[3].tool = "find_contact_info"
    /\ pass[w].results[4].tool = "send_email"
    /\ pass[w].results[5].tool = "find_contact_info"
    /\ pass[w].results[6].tool = "send_email"

InProgress(t) == t \in 1..Len(tasks) /\ tasks[t].status = "in_progress"

Settled(t) ==
  t \in 1..Len(tasks) /\ tasks[t].status \in {"completed", "waiting_response", "failed"}

Mirrors == {"create_calendar_event", "create_hubspot_contact", "add_hubspot_note"}

\* the step in which the pass of server process w appends the entry of a
\* call that reached one of the adapters that mirror a remote write
MirrorCall(w) ==
  /\ Len(pass'[w].results) = Len(pass[w].results) + 1
  /\ pass'[w].results[Len(pass'[w].results)].tool \in Mirrors
  /\ pass'[w].results[Len(pass'[w].results)].result.success # "none"

\* C30: a call of create_event, create_contact or add_note that answers
\* success false leaves the Meeting, HubspotContact and HubspotNote rows as
\* they were, one that answers success true has added its row, and
\* create_contact answers success true whenever it has added the contact,
\* whether the chained add_note stored its note or failed.
C30_MirrorAfterRemote ==
  [][\A w \in Workers :
       MirrorCall(w) =>
         LET e == pass'[w].results[Len(pass'[w].results)]
         IN /\ e.result.success = "false"
                => meetings' = meetings /\ contacts' = contacts /\ notes' = notes
            /\ e.result.success = "true"
                => CASE e.tool = "create_calendar_event" ->
                          /\ Len(meetings') = Len(meetings) + 1
                          /\ contacts' = contacts /\ notes' = notes
                     [] e.tool = "create_hubspot_contact" ->
                          /\ Len(contacts') = Len(contacts) + 1
                          /\ meetings' = meetings
                          /\ notes' # notes => "note" \in e.arguments.keys
                     [] OTHER ->
                          /\ Len(notes') = Len(notes) + 1
                          /\ Len(posts') = Len(posts) + 1
                          /\ contacts' = contacts /\ meetings' = meetings
            /\ (e.tool = "create_hubspot_contact" /\ contacts' # contacts)
                => e.result.success = "true"
            /\ notes' # notes => posts' # posts]_vars

\* create_contact stored the contact and answered success true although
\* the request of its chained note failed and no note was stored
C30_Witness ==
  \E w \in Workers :
    /\ pass[w].results # <<>>
    /\ LET e == pass[w].results[Len(pass[w].results)]
       IN /\ e.tool = "create_hubspot_contact"
          /\ "note" \in e.arguments.keys
          /\ e.result.success = "true"
          /\ \E k \in 1..Len(contacts) : contacts[k].email = e.arguments.v[1]
          /\ posts # <<>>
          /\ posts[Len(posts)].contact_email = e.arguments.v[1]
          /\ notes = <<>>

\* a calendar event and a note were refused and nothing was stored for them
C30_WitnessRefused ==
  \E w \in Workers :
    /\ Len(pass[w].results) >= 2
    /\ \E j, k \in 1..Len(pass[w].results) :
         /\ pass[w].results[j].tool = "create_calendar_event"
         /\ pass[w].results[j].result.success = "false"
         /\ pass[w].results[k].tool = "add_hubspot_note"
         /\ pass[w].results[k].result.error = "HubSpot API error"
    /\ meetings = <<>>
    /\ notes = <<>>

====
